---- MODULE Spec2Model ----
(***************************************************************************)
(* Model of the synton-lang runtime core: the StackValue arithmetic, the   *)
(* bounded operand Stack, the Memory arena and the Engine's                *)
(* fetch-decode-execute loop (crates/synton-runtime), with the             *)
(* ContractVerifier and the DebugStateObject of crates/synton-contract.    *)
(*                                                                         *)
(* Eight specifications:                                                   *)
(*   Spec       one Engine, one run_with_inputs call, one loop iteration   *)
(*              per step;                                                  *)
(*   SpecLive   Spec with the loop of run_with_inputs weakly fair;         *)
(*   SpecReuse  one Engine over several whole calls of run_with_inputs;    *)
(*   SpecStack  one Stack object driven by push / pop / peek / clear;      *)
(*   SpecMemory one Memory arena driven by alloc / read / write / free /   *)
(*              gc;                                                        *)
(*   SpecValue  one call of StackValue::add / sub / mul / div on a pair    *)
(*              of operands;                                               *)
(*   SpecDso    one DebugStateObject written by to_json and read back by   *)
(*              from_json;                                                 *)
(*   SpecHost   a ContractVerifier, a StdLib and a Bytecode container      *)
(*              under construction, driven by their methods.               *)
(***************************************************************************)
EXTENDS Integers, Sequences, FiniteSets, TLC

VARIABLES
    overflow_checks, \* build profile: TRUE = overflow checks on (debug), FALSE = off (release)
    verifier,        \* the ContractVerifier living beside the engine
    stack,           \* Engine.stack : Stack
    max_steps,       \* Engine.max_steps : Option<usize>, <<>> is None, <<n>> is Some(n)
    bytecode,        \* the &Bytecode of the run
    inputs,          \* the &[StackValue] of the run
    pc,              \* run_with_inputs: let mut pc
    steps,           \* run_with_inputs: let mut steps
    phase,           \* "idle" | "running" | "halted" | "aborted" (host panic)
    result,          \* the ExecutionResult returned, NoResult until then
    failure,         \* the RuntimeError bound by Err(e) at engine.rs:57, NoError if none
    output,          \* values written by println! (the engine's only I/O)
    calls,           \* SpecReuse: the calls of run_with_inputs made on the Engine so far
    stk,             \* SpecStack: the Stack object
    stk_op,          \* SpecStack: the last call made on it
    stk_res,         \* SpecStack: what that call returned
    mem,             \* SpecMemory: the Memory object
    mem_op,          \* SpecMemory: the last call made on it
    mem_res,         \* SpecMemory: what that call returned
    mem_issued,      \* SpecMemory: the addresses returned by alloc so far, in order
    val_x,           \* SpecValue: the receiver of the arithmetic call
    val_y,           \* SpecValue: its argument
    val_op,          \* SpecValue: the method called, "none" before the call
    val_res,         \* SpecValue: what the call returned
    dso,             \* SpecDso: the DebugStateObject built
    dso_text,        \* SpecDso: Option of the text to_json returned
    dso_back,        \* SpecDso: Option of the Result from_json returned on that text
    stdlib,          \* SpecHost: StdLib.functions, name |-> the built-in registered under it
    host_op,         \* SpecHost: the last call made
    host_res,        \* SpecHost: what that call returned
    const_at         \* SpecHost: every add_constant call so far: the index returned, the constant

vars == <<overflow_checks, verifier, stack, max_steps, bytecode, inputs, pc, steps,
          phase, result, failure, output, calls, stk, stk_op, stk_res,
          mem, mem_op, mem_res, mem_issued, val_x, val_y, val_op, val_res,
          dso, dso_text, dso_back, stdlib, host_op, host_res, const_at>>

engineVars == <<verifier, stack, max_steps, bytecode, inputs, pc, steps,
                phase, result, failure, output, calls>>

stackVars == <<stk, stk_op, stk_res>>

memVars == <<mem, mem_op, mem_res, mem_issued>>

pureVars == <<val_x, val_y, val_op, val_res, dso, dso_text, dso_back,
              stdlib, host_op, host_res, const_at>>

----------------------------------------------------------------------------
(* Bounds of the model *)

\* i64 is modelled as a two's-complement integer of IntBits bits
IntBits == 4
\* usize is modelled as an unsigned integer of UsizeBits bits (it must hold 1025)
UsizeBits == 11
\* longest program of the combinatorial family
MaxProgLen == 2
\* largest small step budget (besides None and 10)
MaxBudget == 1
\* largest capacity of the Stack object of SpecStack
MaxCap == 3
\* largest capacity of the Memory arena of SpecMemory
MaxMem == 3
\* most successful allocs made on the arena of SpecMemory
MaxAllocs == 4
\* largest operand of Const / Jump / Loop / Call / ... in the one-instruction family
MaxArg == 2
\* most runs made on one Engine in SpecReuse
MaxCalls == 2
\* most constants added to the Bytecode container of SpecHost
MaxConsts == 2

RECURSIVE Pow2(_)
Pow2(n) == IF n = 0 THEN 1 ELSE 2 * Pow2(n - 1)

IntMin == 0 - Pow2(IntBits - 1)
IntMax == Pow2(IntBits - 1) - 1
IntRange == IntMin..IntMax
UsizeMax == Pow2(UsizeBits) - 1

Abs(a) == IF a < 0 THEN 0 - a ELSE a

----------------------------------------------------------------------------
(* RuntimeError (lib.rs) *)

NoError == [kind |-> "None", a |-> "", b |-> ""]
DivisionByZero == [kind |-> "DivisionByZero", a |-> "", b |-> ""]
StackOverflow == [kind |-> "StackOverflow", a |-> "", b |-> ""]
StackUnderflow == [kind |-> "StackUnderflow", a |-> "", b |-> ""]
MaxStepsExceeded == [kind |-> "MaxStepsExceeded", a |-> "", b |-> ""]
InvalidOperation(msg) == [kind |-> "InvalidOperation", a |-> msg, b |-> ""]
TypeMismatch(expected, found) == [kind |-> "TypeMismatch", a |-> expected, b |-> found]
UndefinedFunction(name) == [kind |-> "UndefinedFunction", a |-> name, b |-> ""]
ConstraintViolation(text) == [kind |-> "ConstraintViolation", a |-> text, b |-> ""]
PanicError(msg) == [kind |-> "Panic", a |-> msg, b |-> ""]
IndexOutOfBounds(index, len) ==
    [kind |-> "IndexOutOfBounds", a |-> ToString(index), b |-> ToString(len)]

\* the #[error("...")] Display strings of RuntimeError
ErrorToString(e) ==
    CASE e.kind = "DivisionByZero" -> "division by zero"
      [] e.kind = "StackOverflow" -> "stack overflow"
      [] e.kind = "StackUnderflow" -> "stack underflow"
      [] e.kind = "MaxStepsExceeded" -> "maximum steps exceeded"
      [] e.kind = "InvalidOperation" -> "invalid operation: " \o e.a
      [] e.kind = "TypeMismatch" -> "type mismatch: expected " \o e.a \o ", found " \o e.b
      [] e.kind = "UndefinedFunction" -> "undefined function: " \o e.a
      [] e.kind = "ConstraintViolation" -> "constraint violation: " \o e.a
      [] e.kind = "Panic" -> "panic: " \o e.a
      [] e.kind = "IndexOutOfBounds" -> "index out of bounds: " \o e.a \o " >= " \o e.b
      [] e.kind = "Memory" -> "memory error: " \o e.a
      [] OTHER -> ""

----------------------------------------------------------------------------
(* StackValue (stack.rs).  A Float is the rational i/d, d >= 1, in lowest  *)
(* terms; every other tag keeps d = 1.  Bool keeps its truth value in i.   *)

IntegerV(n) == [tag |-> "Integer", i |-> n, d |-> 1, s |-> ""]
FloatV(n, m) == [tag |-> "Float", i |-> n, d |-> m, s |-> ""]
StringV(t) == [tag |-> "String", i |-> 0, d |-> 1, s |-> t]
BoolV(b) == [tag |-> "Bool", i |-> IF b THEN 1 ELSE 0, d |-> 1, s |-> ""]
UnitV == [tag |-> "Unit", i |-> 0, d |-> 1, s |-> ""]
RefV(a) == [tag |-> "Ref", i |-> a, d |-> 1, s |-> ""]

\* Result<StackValue, RuntimeError>, plus the third outcome of a Rust
\* expression: a panic that unwinds out of the call
Ok(v) == [status |-> "ok", val |-> v, err |-> NoError]
Err(e) == [status |-> "err", val |-> UnitV, err |-> e]
Panicked == [status |-> "panic", val |-> UnitV, err |-> NoError]

\* `a + b`, `a - b`, `a * b` on i64: the mathematical result r when it fits;
\* otherwise a panic with overflow checks on and the two's-complement wrap of
\* r into i64 with them off
IntArith(r, checks) ==
    IF r \in IntRange THEN Ok(IntegerV(r))
    ELSE IF checks THEN Panicked
    ELSE Ok(IntegerV(((r - IntMin) % Pow2(IntBits)) + IntMin))

\* Rust's `/` on integers truncates toward zero
TruncDiv(a, b) ==
    IF (a < 0) = (b < 0) THEN Abs(a) \div Abs(b) ELSE 0 - (Abs(a) \div Abs(b))

RECURSIVE Gcd(_, _)
Gcd(a, b) == IF b = 0 THEN a ELSE Gcd(b, a % b)

\* the Float n/m in lowest terms with a positive denominator
Rational(n, m) ==
    LET g == Gcd(Abs(n), Abs(m))
        sgn == IF m < 0 THEN 0 - 1 ELSE 1
    IN FloatV(sgn * (n \div g), sgn * (m \div g))

\* add that promotes an Integer beside a Float
ValueAddCoercing(x, y, checks) ==
    CASE x.tag = "Integer" /\ y.tag = "Integer" -> IntArith(x.i + y.i, checks)
      [] x.tag = "Float" /\ y.tag = "Float" -> Ok(Rational(x.i * y.d + y.i * x.d, x.d * y.d))
      [] x.tag = "Integer" /\ y.tag = "Float" -> Ok(Rational(x.i * y.d + y.i, y.d))
      [] x.tag = "Float" /\ y.tag = "Integer" -> Ok(Rational(x.i + y.i * x.d, x.d))
      [] x.tag = "String" /\ y.tag = "String" -> Ok(StringV(x.s \o y.s))
      [] OTHER -> Err(TypeMismatch("compatible types", "incompatible types"))

ValueAdd(x, y, checks) ==
    CASE x.tag = "Integer" /\ y.tag = "Integer" -> IntArith(x.i + y.i, checks)
      [] x.tag = "Float" /\ y.tag = "Float" -> Ok(Rational(x.i * y.d + y.i * x.d, x.d * y.d))
      [] x.tag = "String" /\ y.tag = "String" -> Ok(StringV(x.s \o y.s))
      [] OTHER -> Err(TypeMismatch("compatible types", "incompatible types"))

ValueSub(x, y, checks) ==
    CASE x.tag = "Integer" /\ y.tag = "Integer" -> IntArith(x.i - y.i, checks)
      [] x.tag = "Float" /\ y.tag = "Float" -> Ok(Rational(x.i * y.d - y.i * x.d, x.d * y.d))
      [] OTHER -> Err(TypeMismatch("numeric", "non-numeric"))

ValueMul(x, y, checks) ==
    CASE x.tag = "Integer" /\ y.tag = "Integer" -> IntArith(x.i * y.i, checks)
      [] x.tag = "Float" /\ y.tag = "Float" -> Ok(Rational(x.i * y.i, x.d * y.d))
      [] OTHER -> Err(TypeMismatch("numeric", "non-numeric"))

\* i64::MIN / -1 panics ("attempt to divide with overflow") in every build
ValueDiv(x, y, checks) ==
    CASE x.tag = "Integer" /\ y.tag = "Integer" ->
            IF y.i = 0 THEN Err(DivisionByZero)
            ELSE IF x.i = IntMin /\ y.i = 0 - 1 THEN Panicked
            ELSE Ok(IntegerV(TruncDiv(x.i, y.i)))
      [] x.tag = "Float" /\ y.tag = "Float" ->
            IF y.i = 0 THEN Err(DivisionByZero)
            ELSE Ok(Rational(x.i * y.d, x.d * y.i))
      [] OTHER -> Err(TypeMismatch("numeric", "non-numeric"))

----------------------------------------------------------------------------
(* Stack (stack.rs) *)

StackNew(n) == [values |-> <<>>, max_size |-> n]

\* what a &mut self call leaves behind and returns
Returned(s, r) == [stack |-> s, res |-> r]

\* push with the capacity test off by one
StackPushOffByOne(s, v) ==
    IF Len(s.values) > s.max_size
    THEN Returned(s, Err(StackOverflow))
    ELSE Returned([s EXCEPT !.values = Append(@, v)], Ok(UnitV))

\* push that appends first and tests the capacity afterwards
StackPushThenCheck(s, v) ==
    LET t == [s EXCEPT !.values = Append(@, v)]
    IN IF Len(t.values) > s.max_size THEN Returned(t, Err(StackOverflow))
       ELSE Returned(t, Ok(UnitV))

StackPush(s, v) ==
    IF Len(s.values) >= s.max_size
    THEN Returned(s, Err(StackOverflow))
    ELSE Returned([s EXCEPT !.values = Append(@, v)], Ok(UnitV))

StackPop(s) ==
    IF Len(s.values) = 0
    THEN Returned(s, Err(StackUnderflow))
    ELSE Returned([s EXCEPT !.values = SubSeq(@, 1, Len(@) - 1)], Ok(s.values[Len(s.values)]))

\* `a - b` on usize: [ok, n]; below zero it panics with overflow checks on
\* and wraps modulo 2^bits with them off
UsizeSub(a, b, checks) ==
    IF a >= b THEN [ok |-> TRUE, n |-> a - b]
    ELSE IF checks THEN [ok |-> FALSE, n |-> 0]
    ELSE [ok |-> TRUE, n |-> a - b + Pow2(UsizeBits)]

\* self.values.get(self.values.len() - 1 - offset).ok_or_else(StackUnderflow)
StackPeek(s, offset, checks) ==
    LET m1 == UsizeSub(Len(s.values), 1, checks)
        m2 == UsizeSub(m1.n, offset, checks)
    IN IF ~m1.ok \/ ~m2.ok THEN Returned(s, Panicked)
       ELSE IF m2.n < Len(s.values) THEN Returned(s, Ok(s.values[m2.n + 1]))
       ELSE Returned(s, Err(StackUnderflow))

StackLen(s) == Len(s.values)

StackIsEmpty(s) == Len(s.values) = 0

StackClear(s) == [s EXCEPT !.values = <<>>]

----------------------------------------------------------------------------
(* Bytecode (bytecode.rs) *)

\* an Instruction's OpKind; arg is the u32 of Const / LoadLocal / StoreLocal /
\* Jump / Loop / Call / TailCall and 0 for the other kinds
Instr(o, n) == [op |-> o, arg |-> n]

NullaryOps ==
    {"Nop", "Drop", "Dup", "Swap", "Rot", "Add", "Sub", "Mul", "Div", "Mod", "Pow",
     "BitAnd", "BitOr", "BitXor", "Shl", "Shr", "Eq", "NotEq", "Less", "LessEq",
     "Greater", "GreaterEq", "And", "Or", "Not", "Branch", "BranchIf", "Return",
     "CallIndirect", "Load", "Store", "Alloc", "ArrayNew", "ArrayGet", "ArraySet",
     "ArrayLen", "CheckPre", "CheckPost", "Assert", "Print", "Panic"}

ArgOps == {"Const", "LoadLocal", "StoreLocal", "Jump", "Loop", "Call", "TailCall"}

OpKind == {Instr(o, 0) : o \in NullaryOps} \cup {Instr(o, n) : o \in ArgOps, n \in 0..MaxArg}

\* Constant
ConstInteger(n) == [kind |-> "Integer", i |-> n, d |-> 1, s |-> ""]
ConstFloat(n, m) == [kind |-> "Float", i |-> n, d |-> m, s |-> ""]
ConstString(t) == [kind |-> "String", i |-> 0, d |-> 1, s |-> t]
ConstBool(b) == [kind |-> "Bool", i |-> IF b THEN 1 ELSE 0, d |-> 1, s |-> ""]
ConstUnit == [kind |-> "Unit", i |-> 0, d |-> 1, s |-> ""]

Bytecode(instrs, consts) == [instructions |-> instrs, constants |-> consts]

\* Bytecode::get_constant: Option<&Constant>, <<>> is None
get_constant(b, idx) ==
    IF idx < Len(b.constants) THEN <<b.constants[idx + 1]>> ELSE <<>>

----------------------------------------------------------------------------
(* ContractVerifier and Solver (synton-contract) *)

\* a solver that finds the empty constraint satisfiable
DummySolverAssertSat(constraint) == IF constraint = "" THEN "Sat" ELSE "Skipped"

\* DummySolver::assert / check_with_inputs
DummySolverAssert(constraint) == "Skipped"

\* Z3Solver::assert / check_with_inputs (feature "z3")
Z3SolverAssert(constraint) == "Unknown"

\* ContractVerifier::disabled()
VerifierDisabled == [solver |-> <<"Dummy">>, enabled |-> FALSE]

\* ContractVerifier::new() with feature "z3"
VerifierZ3 == [solver |-> <<"Z3">>, enabled |-> TRUE]

\* ContractVerifier::verify_pre / verify_post
Verify(v, constraint) ==
    IF v.solver = <<>> THEN "Skipped"
    ELSE IF v.solver[1] = "Dummy" THEN DummySolverAssert(constraint)
    ELSE Z3SolverAssert(constraint)

----------------------------------------------------------------------------
(* Engine (engine.rs) *)

\* ExecutionResult (lib.rs); NoResult while run_with_inputs has not returned
NoResult == [kind |-> "None", value |-> UnitV, code |-> "", message |-> "", location |-> <<>>]
Success(v) == [kind |-> "Success", value |-> v, code |-> "", message |-> "", location |-> <<>>]
UnitResult == [kind |-> "Unit", value |-> UnitV, code |-> "", message |-> "", location |-> <<>>]
ErrorResult(c, m, l) == [kind |-> "Error", value |-> UnitV, code |-> c, message |-> m, location |-> l]

\* error_code with the two stack failures' codes exchanged
error_codeSwapped(e) ==
    CASE e.kind = "DivisionByZero" -> "DIVISION_BY_ZERO"
      [] e.kind = "IndexOutOfBounds" -> "INDEX_OUT_OF_BOUNDS"
      [] e.kind = "StackOverflow" -> "STACK_UNDERFLOW"
      [] e.kind = "StackUnderflow" -> "STACK_OVERFLOW"
      [] e.kind = "MaxStepsExceeded" -> "MAX_STEPS_EXCEEDED"
      [] e.kind = "ConstraintViolation" -> "CONSTRAINT_VIOLATION"
      [] OTHER -> "RUNTIME_ERROR"

\* fn error_code
error_code(e) ==
    CASE e.kind = "DivisionByZero" -> "DIVISION_BY_ZERO"
      [] e.kind = "IndexOutOfBounds" -> "INDEX_OUT_OF_BOUNDS"
      [] e.kind = "StackOverflow" -> "STACK_OVERFLOW"
      [] e.kind = "StackUnderflow" -> "STACK_UNDERFLOW"
      [] e.kind = "MaxStepsExceeded" -> "MAX_STEPS_EXCEEDED"
      [] e.kind = "ConstraintViolation" -> "CONSTRAINT_VIOLATION"
      [] OTHER -> "RUNTIME_ERROR"

\* fn constant_to_value
constant_to_value(c) ==
    CASE c.kind = "Integer" -> IntegerV(c.i)
      [] c.kind = "Float" -> FloatV(c.i, c.d)
      [] c.kind = "String" -> StringV(c.s)
      [] c.kind = "Bool" -> BoolV(c.i = 1)
      [] OTHER -> UnitV

\* what execute_one leaves behind: the stack, Ok(Continue) / Ok(Halt(val)) /
\* Err(err) / a panic unwinding through it ("Abort"), and the values printed
Continue(s) == [stack |-> s, flow |-> "Continue", val |-> UnitV, err |-> NoError, printed |-> <<>>]
Halt(s, v) == [stack |-> s, flow |-> "Halt", val |-> v, err |-> NoError, printed |-> <<>>]
Raise(s, e) == [stack |-> s, flow |-> "Err", val |-> UnitV, err |-> e, printed |-> <<>>]
Abort(s) == [stack |-> s, flow |-> "Abort", val |-> UnitV, err |-> NoError, printed |-> <<>>]
Printed(s, v) == [stack |-> s, flow |-> "Continue", val |-> UnitV, err |-> NoError, printed |-> <<v>>]

\* a.add(b) / a.sub(b) / a.mul(b) / a.div(b) of the arm of instruction o
ApplyArith(o, x, y, checks) ==
    CASE o = "Add" -> ValueAdd(x, y, checks)
      [] o = "Sub" -> ValueSub(x, y, checks)
      [] o = "Mul" -> ValueMul(x, y, checks)
      [] OTHER -> ValueDiv(x, y, checks)

\* let b = pop()?; let a = pop()?; self.stack.push(a.op(b)?);
\* (the Result of the push is dropped)
BinaryOp(s, o, checks) ==
    LET pb == StackPop(s)
        pa == StackPop(pb.stack)
        r == ApplyArith(o, pa.res.val, pb.res.val, checks)
    IN IF pb.res.status = "err" THEN Raise(pb.stack, pb.res.err)
       ELSE IF pa.res.status = "err" THEN Raise(pa.stack, pa.res.err)
       ELSE IF r.status = "err" THEN Raise(pa.stack, r.err)
       ELSE IF r.status = "panic" THEN Abort(pa.stack)
       ELSE Continue(StackPush(pa.stack, r.val).stack)

\* OpKind::Const(idx)
ExecConst(s, b, idx) ==
    LET c == get_constant(b, idx)
    IN IF c = <<>> THEN Raise(s, InvalidOperation("constant index out of bounds"))
       ELSE Continue(StackPush(s, constant_to_value(c[1])).stack)

\* self.stack.pop().unwrap_or(StackValue::Unit)
PopOrUnit(s) ==
    LET p == StackPop(s)
    IN IF p.res.status = "ok" THEN [stack |-> p.stack, val |-> p.res.val]
       ELSE [stack |-> p.stack, val |-> UnitV]

\* OpKind::Return
ExecReturn(s) == LET p == PopOrUnit(s) IN Halt(p.stack, p.val)

\* OpKind::Print
ExecPrint(s) == LET p == PopOrUnit(s) IN Printed(p.stack, p.val)

\* Panic that pops the stack and always reports the default message
ExecPanicDefaultOnly(s) ==
    LET p == StackPop(s)
    IN Raise(p.stack, PanicError("panic"))

\* OpKind::Panic: pop().ok().and_then(|v| v.as_string().ok()).unwrap_or("panic")
ExecPanic(s) ==
    LET p == StackPop(s)
        msg == IF p.res.status = "ok" /\ p.res.val.tag = "String" THEN p.res.val.s ELSE "panic"
    IN Raise(p.stack, PanicError(msg))

\* the `_ =>` arm: warn!("unimplemented opcode") and fall through to *pc += 1
ExecOther(s) == Continue(s)

\* the match of execute_one
execute_one(op, s, b, checks) ==
    CASE op.op = "Nop" -> Continue(s)
      [] op.op = "Const" -> ExecConst(s, b, op.arg)
      [] op.op = "Add" -> BinaryOp(s, "Add", checks)
      [] op.op = "Sub" -> BinaryOp(s, "Sub", checks)
      [] op.op = "Mul" -> BinaryOp(s, "Mul", checks)
      [] op.op = "Div" -> BinaryOp(s, "Div", checks)
      [] op.op = "Return" -> ExecReturn(s)
      [] op.op = "Print" -> ExecPrint(s)
      [] op.op = "Panic" -> ExecPanic(s)
      [] OTHER -> ExecOther(s)

\* `*pc += 1` after the match, reached only on the Continue path
\* a loop that dispatches the same instruction again
NextPcRepeat(p, flow) == p

NextPc(p, flow) == IF flow = "Continue" THEN p + 1 ELSE p

\* for val in inputs.iter().rev() { self.stack.push(val.clone()); }
\* the pushes in order, each Result dropped.  The sequence is folded by
\* halves, the left half evaluated before the right one starts, so that the
\* evaluation stays shallow for 1025 inputs.
RECURSIVE PushAll(_, _)
PushAll(s, vs) ==
    IF Len(vs) = 0 THEN s
    ELSE IF Len(vs) = 1 THEN StackPush(s, vs[1]).stack
    ELSE LET h == Len(vs) \div 2
             left == PushAll(s, SubSeq(vs, 1, h))
         IN IF Len(left.values) >= 0
            THEN PushAll(left, SubSeq(vs, h + 1, Len(vs)))
            ELSE left

Reverse(vs) == [k \in 1..Len(vs) |-> vs[Len(vs) + 1 - k]]

PrimeInputs(s, in) == PushAll(s, Reverse(in))

\* the budget test off by one
StepLimitOffByOne(ms, n) == ms # <<>> /\ n > ms[1]

\* `if let Some(max) = self.max_steps { if steps >= max {`
StepLimitReached(ms, n) == ms # <<>> /\ n >= ms[1]

\* while pc < bytecode.instructions().len()
InLoop(p, b) == p < Len(b.instructions)

----------------------------------------------------------------------------
(* The programs, inputs and configurations the runs are drawn from *)

\* constant pool of the combinatorial and one-instruction families
FixedPool == <<ConstInteger(2), ConstInteger(3), ConstString("boom")>>

\* [Const a, Const b, op, Return] for every pair of integers and every
\* arithmetic instruction
ArithOps == {"Add", "Sub", "Mul", "Div"}

ArithPrograms ==
    {Bytecode(<<Instr("Const", 0), Instr("Const", 1), Instr(o, 0), Instr("Return", 0)>>,
              <<ConstInteger(a), ConstInteger(b)>>) :
        a \in IntRange, b \in IntRange, o \in ArithOps}

\* every sequence of up to MaxProgLen of these instructions
CorePrograms ==
    LET CoreOps ==
            {Instr("Nop", 0), Instr("Const", 0), Instr("Const", 2), Instr("Add", 0),
             Instr("Div", 0), Instr("Return", 0), Instr("Print", 0), Instr("Panic", 0),
             Instr("Jump", 0), Instr("Jump", 2), Instr("Drop", 0), Instr("CheckPre", 0)}
    IN {Bytecode(is, FixedPool) : is \in UNION {[1..k -> CoreOps] : k \in 0..MaxProgLen}}

\* every OpKind alone
SinglePrograms == {Bytecode(<<o>>, FixedPool) : o \in OpKind}

\* programs run on a stack primed to its capacity
FullStackPrograms ==
    {Bytecode(<<Instr("Const", 0), Instr("Return", 0)>>, FixedPool),
     Bytecode(<<Instr("Const", 0), Instr("Const", 1), Instr("Add", 0), Instr("Return", 0)>>,
              FixedPool)}

SmallInputs ==
    {<<>>, <<IntegerV(1)>>, <<StringV("msg"), IntegerV(IntMax)>>}

\* Engine::new: Stack::new(1024)
EngineStackSize == 1024

BulkInputs ==
    {[k \in 1..n |-> IntegerV(1)] :
        n \in {EngineStackSize - 1, EngineStackSize, EngineStackSize + 1}}

RunChoices ==
    (ArithPrograms \X {<<>>})
    \cup ((CorePrograms \cup SinglePrograms) \X SmallInputs)
    \cup (FullStackPrograms \X BulkInputs)

\* RuntimeConfig.max_steps
MaxStepsChoices == {<<>>, <<10>>} \cup {<<n>> : n \in 0..MaxBudget}

----------------------------------------------------------------------------
(* Memory (memory.rs) *)

\* MemoryError; NoMemoryError stands for "no error" in a returned record
NoMemoryError == [kind |-> "None", a |-> 0, b |-> 0]
OutOfMemory(requested, available) == [kind |-> "OutOfMemory", a |-> requested, b |-> available]
InvalidAddress(addr) == [kind |-> "InvalidAddress", a |-> addr, b |-> 0]

\* RuntimeError::Memory(#[from] MemoryError), holding the Display text of the
\* MemoryError it wraps
Memory(text) == [kind |-> "Memory", a |-> text, b |-> ""]

\* MemoryCell; only the tag's own field is meaningful
IntegerCell(n) == [tag |-> "Integer", i |-> n, s |-> ""]
StringCell(t) == [tag |-> "String", i |-> 0, s |-> t]
NoCell == [tag |-> "None", i |-> 0, s |-> ""]

\* what a Memory method returns.  MemOk(addr, NoCell) is alloc's Ok(addr),
\* MemOk(0, c) is read's Ok(&c), MemOk(0, NoCell) is the Ok(()) of write and
\* free and the () of gc
MemOk(addr, c) == [status |-> "ok", addr |-> addr, cell |-> c, err |-> NoMemoryError]
MemErr(e) == [status |-> "err", addr |-> 0, cell |-> NoCell, err |-> e]
MemPanicked == [status |-> "panic", addr |-> 0, cell |-> NoCell, err |-> NoMemoryError]

\* a method's effect: the object after the call and the value returned
MemReturned(m, r) == [memory |-> m, res |-> r]

\* cells: Vec<Option<MemoryCell>>, None is <<>>, Some(c) is <<c>>
MemoryNew(n) == [cells |-> <<>>, max_size |-> n]

\* alloc with the capacity test off by one
MemoryAllocOffByOne(m, c, checks) ==
    IF Len(m.cells) > m.max_size
    THEN LET d == UsizeSub(m.max_size, Len(m.cells), checks)
         IN IF d.ok THEN MemReturned(m, MemErr(OutOfMemory(1, d.n)))
                    ELSE MemReturned(m, MemPanicked)
    ELSE MemReturned([m EXCEPT !.cells = Append(@, <<c>>)], MemOk(Len(m.cells), NoCell))

MemoryAlloc(m, c, checks) ==
    IF Len(m.cells) >= m.max_size
    THEN LET d == UsizeSub(m.max_size, Len(m.cells), checks)
         IN IF d.ok THEN MemReturned(m, MemErr(OutOfMemory(1, d.n)))
                    ELSE MemReturned(m, MemPanicked)
    ELSE MemReturned([m EXCEPT !.cells = Append(@, <<c>>)], MemOk(Len(m.cells), NoCell))

\* cells.get(addr).and_then(|c| c.as_ref())
MemoryRead(m, addr) ==
    IF addr < Len(m.cells) /\ m.cells[addr + 1] # <<>>
    THEN MemReturned(m, MemOk(0, m.cells[addr + 1][1]))
    ELSE MemReturned(m, MemErr(InvalidAddress(addr)))

MemoryWrite(m, addr, c) ==
    IF addr < Len(m.cells)
    THEN MemReturned([m EXCEPT !.cells[addr + 1] = <<c>>], MemOk(0, NoCell))
    ELSE MemReturned(m, MemErr(InvalidAddress(addr)))

\* free that removes the slot instead of leaving a tombstone
MemoryFreeRemoving(m, addr) ==
    IF addr < Len(m.cells)
    THEN MemReturned([m EXCEPT !.cells = SubSeq(@, 1, addr) \o SubSeq(@, addr + 2, Len(@))],
                     MemOk(0, NoCell))
    ELSE MemReturned(m, MemErr(InvalidAddress(addr)))

MemoryFree(m, addr) ==
    IF addr < Len(m.cells)
    THEN MemReturned([m EXCEPT !.cells[addr + 1] = <<>>], MemOk(0, NoCell))
    ELSE MemReturned(m, MemErr(InvalidAddress(addr)))

\* cells.retain(|c| c.is_some())
MemoryGc(m) == [m EXCEPT !.cells = SelectSeq(@, LAMBDA c : c # <<>>)]

----------------------------------------------------------------------------
(* DebugStateObject (dso.rs) and its serde_json text *)

\* serde_json::Value: Json("null", "", <<>>) is Null, Json("string", x, <<>>)
\* the String x, Json("object", "", f) the Object whose Map is f
Json(t, x, f) == [t |-> t, s |-> x, m |-> f]

\* Map::insert; Map::new() is <<>>
MapInsert(f, k, v) == [x \in (DOMAIN f) \cup {k} |-> IF x = k THEN v ELSE f[x]]

\* the struct's named fields
FieldNames == {"status", "error_code", "location", "context", "expected", "actual",
               "suggestion"}

\* the fields of DebugStateObject, and of DsoBuilder where status and
\* error_code are Options
Dso(st, code, loc, ctx, exp, act, sug, ext) ==
    [status |-> st, error_code |-> code, location |-> loc, context |-> ctx,
     expected |-> exp, actual |-> act, suggestion |-> sug, extra |-> ext]

\* DsoBuilder::default()
DsoBuilderNew == Dso(<<>>, <<>>, <<>>, Json("null", "", <<>>), <<>>, <<>>, <<>>, <<>>)

\* DsoBuilder::build
DsoBuild(b) ==
    [b EXCEPT !.status = IF @ = <<>> THEN "Unknown" ELSE @[1],
              !.error_code = IF @ = <<>> THEN "UNKNOWN" ELSE @[1]]

\* the entries of a Map as members [key, value] of a JSON object, in the key
\* order the Map iterates in
RECURSIVE MapMembers(_, _)
MapMembers(f, order) ==
    IF order = <<>> THEN <<>>
    ELSE (IF Head(order) \in DOMAIN f
          THEN <<[key |-> Head(order), value |-> f[Head(order)]]>> ELSE <<>>)
         \o MapMembers(f, Tail(order))

\* the keys the builder is given for extension entries, in Map iteration order
ExtraKeyOrder == <<"hint", "status", "trace">>

\* to_json: the derived Serialize writes one top-level JSON object, the named
\* fields in declaration order (an Option<String> as null or the string) and
\* then, flattened, the entries of `extra`; the text is modelled as the
\* sequence of the object's members
DsoToJson(d) ==
    LET Str(x) == Json("string", x, <<>>)
        Opt(o) == IF o = <<>> THEN Json("null", "", <<>>) ELSE Str(o[1])
    IN <<[key |-> "status", value |-> Str(d.status)],
         [key |-> "error_code", value |-> Str(d.error_code)],
         [key |-> "location", value |-> Opt(d.location)],
         [key |-> "context", value |-> d.context],
         [key |-> "expected", value |-> Opt(d.expected)],
         [key |-> "actual", value |-> Opt(d.actual)],
         [key |-> "suggestion", value |-> Opt(d.suggestion)]>>
       \o MapMembers(d.extra, ExtraKeyOrder)

\* Result<DebugStateObject, serde_json::Error>
ParseOk(d) == [ok |-> TRUE, dso |-> <<d>>, msg |-> ""]
ParseErr(text) == [ok |-> FALSE, dso |-> <<>>, msg |-> text]

\* the derived Deserialize visitor's loop over the members: a named field seen
\* twice is an error, so is a value its type does not accept, and an unknown
\* key is collected for the flattened map
RECURSIVE VisitMembers(_, _)
VisitMembers(text, acc) ==
    IF text = <<>> \/ acc.err # <<>> THEN acc
    ELSE LET e == Head(text)
             accepts == CASE e.key \in {"status", "error_code"} -> e.value.t = "string"
                          [] e.key = "context" -> TRUE
                          [] OTHER -> e.value.t \in {"null", "string"}
         IN IF e.key \in FieldNames
            THEN IF e.key \in DOMAIN acc.known
                 THEN [acc EXCEPT !.err = <<"duplicate field " \o e.key>>]
                 ELSE IF ~accepts
                 THEN [acc EXCEPT !.err = <<"invalid type">>]
                 ELSE VisitMembers(Tail(text),
                                   [acc EXCEPT !.known = MapInsert(@, e.key, e.value)])
            ELSE VisitMembers(Tail(text),
                              [acc EXCEPT !.extra = MapInsert(@, e.key, e.value)])

\* from_json on the text: the visitor's loop, then the struct is assembled; a
\* null or missing member is None for an Option<String>
DsoFromJson(text) ==
    LET acc == VisitMembers(text, [known |-> <<>>, extra |-> <<>>, err |-> <<>>])
        Opt(k) == IF k \in DOMAIN acc.known /\ acc.known[k].t = "string"
                  THEN <<acc.known[k].s>> ELSE <<>>
    IN IF acc.err # <<>> THEN ParseErr(acc.err[1])
       ELSE IF "status" \notin DOMAIN acc.known THEN ParseErr("missing field status")
       ELSE IF "error_code" \notin DOMAIN acc.known THEN ParseErr("missing field error_code")
       ELSE IF "context" \notin DOMAIN acc.known THEN ParseErr("missing field context")
       ELSE ParseOk(Dso(acc.known["status"].s, acc.known["error_code"].s,
                        Opt("location"), acc.known["context"], Opt("expected"),
                        Opt("actual"), Opt("suggestion"), acc.extra))

----------------------------------------------------------------------------
(* The host's side: ContractVerifier::violation_dso, StdLib, Bytecode building *)

\* violation_dso with the codes of Invariant and Assert exchanged
violation_dsoSwapped(contract, context) ==
    DsoBuild([DsoBuilderNew EXCEPT
        !.status = <<"ContractViolation">>,
        !.error_code = <<CASE contract.kind = "Pre" -> "PRECONDITION_VIOLATION"
                           [] contract.kind = "Post" -> "POSTCONDITION_VIOLATION"
                           [] contract.kind = "Invariant" -> "ASSERTION_FAILED"
                           [] OTHER -> "INVARIANT_VIOLATION">>,
        !.expected = <<contract.constraint>>,
        !.context = context])

\* ContractVerifier::violation_dso: DsoBuilder::new().status(..).error_code(..)
\* .expected(..).context(..).build()
violation_dso(contract, context) ==
    DsoBuild([DsoBuilderNew EXCEPT
        !.status = <<"ContractViolation">>,
        !.error_code = <<CASE contract.kind = "Pre" -> "PRECONDITION_VIOLATION"
                           [] contract.kind = "Post" -> "POSTCONDITION_VIOLATION"
                           [] contract.kind = "Invariant" -> "INVARIANT_VIOLATION"
                           [] OTHER -> "ASSERTION_FAILED">>,
        !.expected = <<contract.constraint>>,
        !.context = context])

\* StdLib::new(): the three built-ins under their names
StdLibNew == [n \in {"print", "len", "abs"} |-> "stdlib_" \o n]

\* StdLib::call that reports the built-in it would have looked for
StdLibCallWrongName(lib, name, args, checks) ==
    IF name \notin DOMAIN lib
    THEN [res |-> Err(UndefinedFunction("stdlib_" \o name)), printed |-> <<>>]
    ELSE [res |-> Ok(UnitV), printed |-> <<>>]

\* StdLib::call: functions.get(name).ok_or_else(UndefinedFunction(name))
\* .and_then(|f| f(args)), with what the built-in printed
StdLibCall(lib, name, args, checks) ==
    LET stdlib_print == [res |-> Ok(UnitV), printed |-> args]
        stdlib_len ==
            IF args = <<>>
            THEN Err(InvalidOperation("len requires at least one argument"))
            ELSE IF args[1].tag = "String" THEN Ok(IntegerV(Len(args[1].s)))
            ELSE Err(TypeMismatch("string", "other"))
        \* i.abs() overflows on i64::MIN
        stdlib_abs ==
            IF args = <<>> THEN Err(InvalidOperation("abs requires an argument"))
            ELSE IF args[1].tag = "Integer" THEN IntArith(Abs(args[1].i), checks)
            ELSE IF args[1].tag = "Float" THEN Ok(FloatV(Abs(args[1].i), args[1].d))
            ELSE Err(TypeMismatch("numeric", "non-numeric"))
    IN IF name \notin DOMAIN lib
       THEN [res |-> Err(UndefinedFunction(name)), printed |-> <<>>]
       ELSE CASE lib[name] = "stdlib_print" -> stdlib_print
              [] lib[name] = "stdlib_len" -> [res |-> stdlib_len, printed |-> <<>>]
              [] OTHER -> [res |-> stdlib_abs, printed |-> <<>>]

\* add_constant returning the number of constants after the push
add_constantAfter(b, c) ==
    [bytecode |-> [b EXCEPT !.constants = Append(@, c)], idx |-> Len(b.constants) + 1]

\* Bytecode::add_constant: idx = constants.len() as u32; constants.push(c); idx.
\* The cast is exact below 2^32 constants, which covers every container here.
add_constant(b, c) ==
    [bytecode |-> [b EXCEPT !.constants = Append(@, c)], idx |-> Len(b.constants)]

----------------------------------------------------------------------------
(* Spec: one Engine and one run *)

\* a call on the Stack object: its name and its argument
StackCall(n, v, k) == [name |-> n, value |-> v, offset |-> k]

StackIdle ==
    /\ stk = StackNew(0)
    /\ stk_op = StackCall("new", UnitV, 0)
    /\ stk_res = Ok(UnitV)

MemoryIdle ==
    /\ mem = MemoryNew(0)
    /\ mem_op = [name |-> "new", addr |-> 0, cell |-> NoCell]
    /\ mem_res = MemOk(0, NoCell)
    /\ mem_issued = <<>>

ValueIdle ==
    /\ val_x = UnitV
    /\ val_y = UnitV
    /\ val_op = "none"
    /\ val_res = Ok(UnitV)

DsoIdle ==
    /\ dso = DsoBuild(DsoBuilderNew)
    /\ dso_text = <<>>
    /\ dso_back = <<>>

HostIdle ==
    /\ stdlib = StdLibNew
    /\ host_op = [name |-> "new", arg |-> <<>>]
    /\ host_res = <<>>
    /\ const_at = <<>>

\* Engine::new(config), beside a ContractVerifier::new() of either feature set
Init ==
    /\ overflow_checks \in BOOLEAN
    /\ verifier \in {VerifierDisabled, VerifierZ3}
    /\ stack = StackNew(EngineStackSize)
    /\ max_steps \in MaxStepsChoices
    /\ bytecode = Bytecode(<<>>, <<>>)
    /\ inputs = <<>>
    /\ pc = 0
    /\ steps = 0
    /\ phase = "idle"
    /\ result = NoResult
    /\ failure = NoError
    /\ output = <<>>
    /\ calls = 0
    /\ StackIdle
    /\ MemoryIdle
    /\ ValueIdle
    /\ DsoIdle
    /\ HostIdle

\* run_with_inputs, up to the loop: prime the stack, pc = 0, steps = 0
RunWithInputs ==
    /\ phase = "idle"
    /\ \E c \in RunChoices :
        /\ bytecode' = c[1]
        /\ inputs' = c[2]
        /\ stack' = PrimeInputs(stack, c[2])
    /\ pc' = 0
    /\ steps' = 0
    /\ phase' = "running"
    /\ UNCHANGED <<overflow_checks, verifier, max_steps, result, failure, output, calls>>
    /\ UNCHANGED stackVars
    /\ UNCHANGED <<memVars, pureVars>>

\* a loop iteration that finds the step budget spent
StepLimit ==
    /\ phase = "running"
    /\ InLoop(pc, bytecode)
    /\ StepLimitReached(max_steps, steps)
    /\ result' = ErrorResult("MAX_STEPS_EXCEEDED",
                             "exceeded maximum steps: " \o ToString(max_steps[1]), <<>>)
    /\ phase' = "halted"
    /\ UNCHANGED <<overflow_checks, verifier, stack, max_steps, bytecode, inputs, pc, steps,
                   failure, output, calls>>
    /\ UNCHANGED stackVars
    /\ UNCHANGED <<memVars, pureVars>>

\* a loop iteration that dispatches the instruction at pc
Dispatch ==
    /\ phase = "running"
    /\ InLoop(pc, bytecode)
    /\ ~StepLimitReached(max_steps, steps)
    /\ steps' = steps + 1
    /\ LET r == execute_one(bytecode.instructions[pc + 1], stack, bytecode, overflow_checks)
       IN /\ stack' = r.stack
          /\ pc' = NextPc(pc, r.flow)
          /\ output' = output \o r.printed
          /\ failure' = r.err
          /\ result' = CASE r.flow = "Halt" -> Success(r.val)
                         [] r.flow = "Err" ->
                              ErrorResult(error_code(r.err), ErrorToString(r.err),
                                          <<"pc=" \o ToString(pc)>>)
                         [] OTHER -> NoResult
          /\ phase' = CASE r.flow = "Continue" -> "running"
                        [] r.flow = "Abort" -> "aborted"
                        [] OTHER -> "halted"
    /\ UNCHANGED <<overflow_checks, verifier, max_steps, bytecode, inputs, calls>>
    /\ UNCHANGED stackVars
    /\ UNCHANGED <<memVars, pureVars>>

\* the loop condition fails: ExecutionResult::Unit
Finish ==
    /\ phase = "running"
    /\ ~InLoop(pc, bytecode)
    /\ result' = UnitResult
    /\ phase' = "halted"
    /\ UNCHANGED <<overflow_checks, verifier, stack, max_steps, bytecode, inputs, pc, steps,
                   failure, output, calls>>
    /\ UNCHANGED stackVars
    /\ UNCHANGED <<memVars, pureVars>>

Next == RunWithInputs \/ StepLimit \/ Dispatch \/ Finish

Spec == Init /\ [][Next]_vars

\* The body of run_with_inputs is straight-line code around one loop: once the
\* call is made, the next loop iteration (or the exit of the loop) is taken.
SpecLive == Spec /\ WF_vars(StepLimit \/ Dispatch \/ Finish)

----------------------------------------------------------------------------
(* SpecReuse: one Engine across several calls of run_with_inputs *)

\* the loop of run_with_inputs from (pc, steps) = (p, n) on, to its return
RECURSIVE RunCall(_, _, _, _, _, _)
RunCall(s, b, p, n, ms, checks) ==
    IF ~InLoop(p, b)
    THEN [stack |-> s, pc |-> p, steps |-> n, phase |-> "halted", result |-> UnitResult,
          failure |-> NoError, printed |-> <<>>]
    ELSE IF StepLimitReached(ms, n)
    THEN [stack |-> s, pc |-> p, steps |-> n, phase |-> "halted",
          result |-> ErrorResult("MAX_STEPS_EXCEEDED",
                                 "exceeded maximum steps: " \o ToString(ms[1]), <<>>),
          failure |-> NoError, printed |-> <<>>]
    ELSE LET r == execute_one(b.instructions[p + 1], s, b, checks)
             rest == RunCall(r.stack, b, NextPc(p, r.flow), n + 1, ms, checks)
         IN CASE r.flow = "Continue" -> [rest EXCEPT !.printed = r.printed \o @]
              [] r.flow = "Halt" ->
                   [stack |-> r.stack, pc |-> p, steps |-> n + 1, phase |-> "halted",
                    result |-> Success(r.val), failure |-> r.err, printed |-> r.printed]
              [] r.flow = "Err" ->
                   [stack |-> r.stack, pc |-> p, steps |-> n + 1, phase |-> "halted",
                    result |-> ErrorResult(error_code(r.err), ErrorToString(r.err),
                                           <<"pc=" \o ToString(p)>>),
                    failure |-> r.err, printed |-> r.printed]
              [] OTHER ->
                   [stack |-> r.stack, pc |-> p, steps |-> n + 1, phase |-> "aborted",
                    result |-> NoResult, failure |-> r.err, printed |-> r.printed]

\* Runtime::execute_with_inputs: one whole call of Engine::run_with_inputs on
\* the Engine the Runtime owns.  A call that panicked is the last one.
Execute ==
    /\ phase # "aborted"
    /\ calls < MaxCalls
    /\ \E c \in ({b \in CorePrograms : Len(b.instructions) = 1} \cup FullStackPrograms)
                  \X SmallInputs :
        \E r \in {RunCall(PrimeInputs(stack, c[2]), c[1], 0, 0, max_steps, overflow_checks)} :
           /\ bytecode' = c[1]
           /\ inputs' = c[2]
           /\ stack' = r.stack
           /\ pc' = r.pc
           /\ steps' = r.steps
           /\ phase' = r.phase
           /\ result' = r.result
           /\ failure' = r.failure
           /\ output' = output \o r.printed
    /\ calls' = calls + 1
    /\ UNCHANGED <<overflow_checks, verifier, max_steps>>
    /\ UNCHANGED stackVars
    /\ UNCHANGED <<memVars, pureVars>>

SpecReuse == Init /\ [][Execute]_vars

----------------------------------------------------------------------------
(* SpecStack: one Stack object under push / pop / peek / clear *)

EngineIdle ==
    /\ verifier = VerifierDisabled
    /\ stack = StackNew(EngineStackSize)
    /\ max_steps = <<>>
    /\ bytecode = Bytecode(<<>>, <<>>)
    /\ inputs = <<>>
    /\ pc = 0
    /\ steps = 0
    /\ phase = "idle"
    /\ result = NoResult
    /\ failure = NoError
    /\ output = <<>>
    /\ calls = 0

\* Stack::new(n)
InitStack ==
    /\ overflow_checks \in BOOLEAN
    /\ \E n \in 0..MaxCap : stk = StackNew(n)
    /\ stk_op = StackCall("new", UnitV, 0)
    /\ stk_res = Ok(UnitV)
    /\ EngineIdle
    /\ MemoryIdle
    /\ ValueIdle
    /\ DsoIdle
    /\ HostIdle

\* a panic unwinds out of the caller: no later call is made on the object
StackUsable == stk_res.status # "panic"

Push ==
    /\ StackUsable
    /\ \E v \in {IntegerV(1), StringV("a")} :
        LET r == StackPush(stk, v)
        IN /\ stk' = r.stack
           /\ stk_res' = r.res
           /\ stk_op' = StackCall("push", v, 0)
    /\ UNCHANGED overflow_checks
    /\ UNCHANGED engineVars
    /\ UNCHANGED <<memVars, pureVars>>

Pop ==
    /\ StackUsable
    /\ LET r == StackPop(stk)
       IN /\ stk' = r.stack
          /\ stk_res' = r.res
          /\ stk_op' = StackCall("pop", UnitV, 0)
    /\ UNCHANGED overflow_checks
    /\ UNCHANGED engineVars
    /\ UNCHANGED <<memVars, pureVars>>

Peek ==
    /\ StackUsable
    /\ \E k \in (0..(MaxCap + 1)) \cup {UsizeMax} :
        LET r == StackPeek(stk, k, overflow_checks)
        IN /\ stk' = r.stack
           /\ stk_res' = r.res
           /\ stk_op' = StackCall("peek", UnitV, k)
    /\ UNCHANGED overflow_checks
    /\ UNCHANGED engineVars
    /\ UNCHANGED <<memVars, pureVars>>

Clear ==
    /\ StackUsable
    /\ stk' = StackClear(stk)
    /\ stk_res' = Ok(UnitV)
    /\ stk_op' = StackCall("clear", UnitV, 0)
    /\ UNCHANGED overflow_checks
    /\ UNCHANGED engineVars
    /\ UNCHANGED <<memVars, pureVars>>

NextStack == Push \/ Pop \/ Peek \/ Clear

SpecStack == InitStack /\ [][NextStack]_vars

----------------------------------------------------------------------------
(* SpecMemory: one Memory arena under alloc / read / write / free / gc.     *)
(* mem_op is the last call, [name, addr, cell]; read, write and free are   *)
(* given every address of the largest arena and one past it.               *)

\* the cells handed to alloc and write
MemCells == {IntegerCell(7), StringCell("c")}

\* Memory::new(k)
InitMemory ==
    /\ overflow_checks \in BOOLEAN
    /\ \E k \in 0..MaxMem : mem = MemoryNew(k)
    /\ mem_op = [name |-> "new", addr |-> 0, cell |-> NoCell]
    /\ mem_res = MemOk(0, NoCell)
    /\ mem_issued = <<>>
    /\ EngineIdle
    /\ StackIdle
    /\ ValueIdle
    /\ DsoIdle
    /\ HostIdle

\* a panic unwinds out of the caller: no later call is made on the object
MemoryUsable == mem_res.status # "panic"

Alloc ==
    /\ MemoryUsable
    /\ Len(mem_issued) < MaxAllocs
    /\ \E c \in MemCells :
        LET r == MemoryAlloc(mem, c, overflow_checks)
        IN /\ mem' = r.memory
           /\ mem_res' = r.res
           /\ mem_op' = [name |-> "alloc", addr |-> 0, cell |-> c]
           /\ mem_issued' = IF r.res.status = "ok" THEN Append(mem_issued, r.res.addr)
                            ELSE mem_issued
    /\ UNCHANGED <<overflow_checks, engineVars, stackVars, pureVars>>

Read ==
    /\ MemoryUsable
    /\ \E a \in 0..MaxMem :
        LET r == MemoryRead(mem, a)
        IN /\ mem' = r.memory
           /\ mem_res' = r.res
           /\ mem_op' = [name |-> "read", addr |-> a, cell |-> NoCell]
    /\ UNCHANGED <<overflow_checks, mem_issued, engineVars, stackVars, pureVars>>

Write ==
    /\ MemoryUsable
    /\ \E a \in 0..MaxMem, c \in MemCells :
        LET r == MemoryWrite(mem, a, c)
        IN /\ mem' = r.memory
           /\ mem_res' = r.res
           /\ mem_op' = [name |-> "write", addr |-> a, cell |-> c]
    /\ UNCHANGED <<overflow_checks, mem_issued, engineVars, stackVars, pureVars>>

Free ==
    /\ MemoryUsable
    /\ \E a \in 0..MaxMem :
        LET r == MemoryFree(mem, a)
        IN /\ mem' = r.memory
           /\ mem_res' = r.res
           /\ mem_op' = [name |-> "free", addr |-> a, cell |-> NoCell]
    /\ UNCHANGED <<overflow_checks, mem_issued, engineVars, stackVars, pureVars>>

Gc ==
    /\ MemoryUsable
    /\ mem' = MemoryGc(mem)
    /\ mem_res' = MemOk(0, NoCell)
    /\ mem_op' = [name |-> "gc", addr |-> 0, cell |-> NoCell]
    /\ UNCHANGED <<overflow_checks, mem_issued, engineVars, stackVars, pureVars>>

NextMemory == Alloc \/ Read \/ Write \/ Free \/ Gc

SpecMemory == InitMemory /\ [][NextMemory]_vars

----------------------------------------------------------------------------
(* SpecValue: one arithmetic call on a pair of StackValues *)

\* operands of every tag, the Integers over the whole i64 range
ValueSamples ==
    {IntegerV(n) : n \in IntRange}
    \cup {FloatV(0, 1), FloatV(1, 2), FloatV(0 - 3, 1)}
    \cup {StringV("ab"), StringV("c")}
    \cup {BoolV(TRUE), BoolV(FALSE), UnitV, RefV(0)}

InitValue ==
    /\ overflow_checks \in BOOLEAN
    /\ val_x \in ValueSamples
    /\ val_y \in ValueSamples
    /\ val_op = "none"
    /\ val_res = Ok(UnitV)
    /\ EngineIdle
    /\ StackIdle
    /\ MemoryIdle
    /\ DsoIdle
    /\ HostIdle

\* val_x.add(val_y), val_x.sub(val_y), val_x.mul(val_y) or val_x.div(val_y)
Arith ==
    /\ val_op = "none"
    /\ \E o \in ArithOps :
        /\ val_op' = o
        /\ val_res' = ApplyArith(o, val_x, val_y, overflow_checks)
    /\ UNCHANGED <<overflow_checks, val_x, val_y, dso, dso_text, dso_back>>
    /\ UNCHANGED <<stdlib, host_op, host_res, const_at>>
    /\ UNCHANGED <<engineVars, stackVars, memVars>>

SpecValue == InitValue /\ [][Arith]_vars

----------------------------------------------------------------------------
(* SpecDso: one DebugStateObject through to_json and from_json *)

\* the DSOs a DsoBuilder builds: each setter called or not, context given
\* Null (the builder's default), an empty or a populated Object or a String,
\* and every Map over a subset of the extension keys
BuiltDsos ==
    LET OptionOf(S) == {<<>>} \cup {<<x>> : x \in S}
        contexts == {Json("null", "", <<>>), Json("object", "", <<>>),
                     Json("string", "x = 1", <<>>),
                     Json("object", "", MapInsert(<<>>, "x", Json("string", "1", <<>>)))}
        values == {Json("string", "v", <<>>), Json("null", "", <<>>)}
        keys == {ExtraKeyOrder[i] : i \in DOMAIN ExtraKeyOrder}
        maps == UNION {[K -> values] : K \in SUBSET keys}
    IN {DsoBuild(Dso(st, <<"E">>, loc, ctx, exp, act, sug, ext)) :
            st \in OptionOf({"Violation"}), loc \in OptionOf({"node"}),
            ctx \in contexts, exp \in OptionOf({"x > 0"}), act \in OptionOf({"x = 0"}),
            sug \in OptionOf({"fix"}), ext \in maps}

InitDso ==
    /\ overflow_checks \in BOOLEAN
    /\ dso \in BuiltDsos
    /\ dso_text = <<>>
    /\ dso_back = <<>>
    /\ EngineIdle
    /\ StackIdle
    /\ MemoryIdle
    /\ ValueIdle
    /\ HostIdle

ToJson ==
    /\ dso_text = <<>>
    /\ dso_text' = <<DsoToJson(dso)>>
    /\ UNCHANGED <<overflow_checks, dso, dso_back, val_x, val_y, val_op, val_res>>
    /\ UNCHANGED <<stdlib, host_op, host_res, const_at>>
    /\ UNCHANGED <<engineVars, stackVars, memVars>>

FromJson ==
    /\ dso_text # <<>>
    /\ dso_back = <<>>
    /\ dso_back' = <<DsoFromJson(dso_text[1])>>
    /\ UNCHANGED <<overflow_checks, dso, dso_text, val_x, val_y, val_op, val_res>>
    /\ UNCHANGED <<stdlib, host_op, host_res, const_at>>
    /\ UNCHANGED <<engineVars, stackVars, memVars>>

NextDso == ToJson \/ FromJson

SpecDso == InitDso /\ [][NextDso]_vars

----------------------------------------------------------------------------
(* SpecHost: the objects a host holds beside the Engine: a ContractVerifier, *)
(* a StdLib and a Bytecode container under construction.                    *)

\* ContractVerifier::new() of either feature set, StdLib::new(), Bytecode::new()
InitHost ==
    /\ overflow_checks \in BOOLEAN
    /\ verifier \in {VerifierDisabled, VerifierZ3}
    /\ stack = StackNew(EngineStackSize)
    /\ max_steps = <<>>
    /\ bytecode = Bytecode(<<>>, <<>>)
    /\ inputs = <<>>
    /\ pc = 0
    /\ steps = 0
    /\ phase = "idle"
    /\ result = NoResult
    /\ failure = NoError
    /\ output = <<>>
    /\ calls = 0
    /\ HostIdle
    /\ StackIdle
    /\ MemoryIdle
    /\ ValueIdle
    /\ DsoIdle

\* ContractVerifier::verify_pre
VerifyPre ==
    /\ \E k \in {"Pre", "Post", "Invariant", "Assert"}, t \in {"", "x > 0"} :
        LET contract == [kind |-> k, constraint |-> t, location |-> "Inline"]
        IN /\ host_op' = [name |-> "verify_pre", arg |-> <<contract>>]
           /\ host_res' = Verify(verifier, contract.constraint)
    /\ UNCHANGED <<overflow_checks, engineVars, stackVars, memVars>>
    /\ UNCHANGED <<val_x, val_y, val_op, val_res, dso, dso_text, dso_back, stdlib, const_at>>

\* ContractVerifier::verify_post: the solver's check_with_inputs, which returns
\* what its assert returns whatever the inputs
VerifyPost ==
    /\ \E k \in {"Pre", "Post", "Invariant", "Assert"}, t \in {"", "x > 0"},
          in \in {Json("null", "", <<>>), Json("string", "1", <<>>)} :
        LET contract == [kind |-> k, constraint |-> t, location |-> "Inline"]
        IN /\ host_op' = [name |-> "verify_post", arg |-> <<contract, in>>]
           /\ host_res' = Verify(verifier, contract.constraint)
    /\ UNCHANGED <<overflow_checks, engineVars, stackVars, memVars>>
    /\ UNCHANGED <<val_x, val_y, val_op, val_res, dso, dso_text, dso_back, stdlib, const_at>>

\* Solver::push / pop / reset: empty bodies in both solvers
SolverScope ==
    /\ \E n \in {"push", "pop", "reset"} :
        host_op' = [name |-> n, arg |-> <<>>]
    /\ host_res' = <<>>
    /\ UNCHANGED <<overflow_checks, engineVars, stackVars, memVars>>
    /\ UNCHANGED <<val_x, val_y, val_op, val_res, dso, dso_text, dso_back, stdlib, const_at>>

\* ContractVerifier::is_enabled
IsEnabled ==
    /\ host_op' = [name |-> "is_enabled", arg |-> <<>>]
    /\ host_res' = verifier.enabled
    /\ UNCHANGED <<overflow_checks, engineVars, stackVars, memVars>>
    /\ UNCHANGED <<val_x, val_y, val_op, val_res, dso, dso_text, dso_back, stdlib, const_at>>

\* ContractVerifier::violation_dso
ViolationDso ==
    /\ \E k \in {"Pre", "Post", "Invariant", "Assert"}, t \in {"", "x > 0"},
          context \in {Json("null", "", <<>>),
                       Json("object", "", MapInsert(<<>>, "x", Json("string", "0", <<>>)))} :
        LET contract == [kind |-> k, constraint |-> t, location |-> "Inline"]
        IN /\ host_op' = [name |-> "violation_dso", arg |-> <<contract, context>>]
           /\ host_res' = violation_dso(contract, context)
    /\ UNCHANGED <<overflow_checks, engineVars, stackVars, memVars>>
    /\ UNCHANGED <<val_x, val_y, val_op, val_res, dso, dso_text, dso_back, stdlib, const_at>>

\* StdLib::call
Call ==
    /\ \E n \in {"print", "len", "abs", "missing", ""},
          args \in {<<>>, <<IntegerV(IntMin)>>, <<StringV("msg")>>,
                    <<FloatV(-1, 2), StringV("msg")>>} :
        /\ host_op' = [name |-> "call", arg |-> <<n, args>>]
        /\ host_res' = StdLibCall(stdlib, n, args, overflow_checks)
    /\ UNCHANGED <<overflow_checks, engineVars, stackVars, memVars>>
    /\ UNCHANGED <<val_x, val_y, val_op, val_res, dso, dso_text, dso_back, stdlib, const_at>>

\* StdLib::contains
Contains ==
    /\ \E n \in {"print", "len", "abs", "missing", ""} :
        /\ host_op' = [name |-> "contains", arg |-> <<n>>]
        /\ host_res' = (n \in DOMAIN stdlib)
    /\ UNCHANGED <<overflow_checks, engineVars, stackVars, memVars>>
    /\ UNCHANGED <<val_x, val_y, val_op, val_res, dso, dso_text, dso_back, stdlib, const_at>>

\* StdLib::functions: the keys, in no particular order
Functions ==
    /\ host_op' = [name |-> "functions", arg |-> <<>>]
    /\ host_res' = DOMAIN stdlib
    /\ UNCHANGED <<overflow_checks, engineVars, stackVars, memVars>>
    /\ UNCHANGED <<val_x, val_y, val_op, val_res, dso, dso_text, dso_back, stdlib, const_at>>

\* Bytecode::push
PushInstruction ==
    /\ Len(bytecode.instructions) < MaxProgLen
    /\ \E i \in {Instr("Const", 0), Instr("Return", 0)} :
        /\ bytecode' = [bytecode EXCEPT !.instructions = Append(@, i)]
        /\ host_op' = [name |-> "push", arg |-> <<i>>]
    /\ host_res' = <<>>
    /\ UNCHANGED <<overflow_checks, verifier, stack, max_steps, inputs, pc, steps, phase,
                   result, failure, output, calls>>
    /\ UNCHANGED <<stackVars, memVars>>
    /\ UNCHANGED <<val_x, val_y, val_op, val_res, dso, dso_text, dso_back, stdlib, const_at>>

\* Bytecode::add_constant
AddConstant ==
    /\ Len(bytecode.constants) < MaxConsts
    /\ \E c \in {ConstFloat(1, 2), ConstBool(TRUE)} :
        LET r == add_constant(bytecode, c)
        IN /\ bytecode' = r.bytecode
           /\ host_op' = [name |-> "add_constant", arg |-> <<c>>]
           /\ host_res' = r.idx
           /\ const_at' = Append(const_at, [idx |-> r.idx, c |-> c])
    /\ UNCHANGED <<overflow_checks, verifier, stack, max_steps, inputs, pc, steps, phase,
                   result, failure, output, calls>>
    /\ UNCHANGED <<stackVars, memVars>>
    /\ UNCHANGED <<val_x, val_y, val_op, val_res, dso, dso_text, dso_back, stdlib>>

\* Bytecode::get_constant
GetConstant ==
    /\ \E idx \in 0..(MaxConsts + 1) :
        /\ host_op' = [name |-> "get_constant", arg |-> <<idx>>]
        /\ host_res' = get_constant(bytecode, idx)
    /\ UNCHANGED <<overflow_checks, engineVars, stackVars, memVars>>
    /\ UNCHANGED <<val_x, val_y, val_op, val_res, dso, dso_text, dso_back, stdlib, const_at>>

NextHost ==
    \/ VerifyPre \/ VerifyPost \/ SolverScope \/ IsEnabled \/ ViolationDso
    \/ Call \/ Contains \/ Functions
    \/ PushInstruction \/ AddConstant \/ GetConstant

SpecHost == InitHost /\ [][NextHost]_vars

----------------------------------------------------------------------------
(* Properties of the Engine, checked under Spec *)

\* the instruction the next loop iteration fetches
CurOp == bytecode.instructions[pc + 1]

\* the next loop iteration dispatches CurOp
CanDispatch ==
    /\ phase = "running"
    /\ InLoop(pc, bytecode)
    /\ ~StepLimitReached(max_steps, steps)

\* run_with_inputs has returned, or a panic has unwound out of it
RunOver == phase \in {"halted", "aborted"}

\* the arm of execute_one's match is one of its named arms
HandledOps == {"Nop", "Const", "Add", "Sub", "Mul", "Div", "Return", "Print", "Panic"}

IsArithProgram(b) ==
    /\ Len(b.instructions) = 4
    /\ Len(b.constants) = 2
    /\ b.instructions[1] = Instr("Const", 0)
    /\ b.instructions[2] = Instr("Const", 1)
    /\ b.instructions[3].op \in ArithOps
    /\ b.instructions[4] = Instr("Return", 0)
    /\ b.constants[1].kind = "Integer"
    /\ b.constants[2].kind = "Integer"

\* a op b over the integers, Div truncating toward zero
MathResult(o, a, b) ==
    CASE o = "Add" -> a + b
      [] o = "Sub" -> a - b
      [] o = "Mul" -> a * b
      [] OTHER -> TruncDiv(a, b)

\* the step budget lets a program of n instructions run to its end
BudgetCovers(n) == max_steps = <<>> \/ max_steps[1] >= n

(* C1: for integer constants a, b and op in {Add, Sub, Mul, Div with b # 0}, *)
(* [Const a, Const b, op, Return] on a fresh engine ends with               *)
(* Success(Integer(a op b)), a being the left operand.                      *)
C1_ArithResult ==
    (/\ RunOver
     /\ IsArithProgram(bytecode)
     /\ inputs = <<>>
     /\ BudgetCovers(4)
     /\ ~(bytecode.instructions[3].op = "Div" /\ bytecode.constants[2].i = 0))
    => result = Success(IntegerV(MathResult(bytecode.instructions[3].op,
                                            bytecode.constants[1].i,
                                            bytecode.constants[2].i)))

(* C2: [Loop(0)] with a step budget of 10 halts with MAX_STEPS_EXCEEDED      *)
(* after exactly 10 dispatched steps, and never with Unit or Success.        *)
C2_LoopHitsBudget ==
    (/\ RunOver
     /\ bytecode.instructions = <<Instr("Loop", 0)>>
     /\ max_steps = <<10>>)
    => (/\ result.kind = "Error"
        /\ result.code = "MAX_STEPS_EXCEEDED"
        /\ steps = 10)

(* C3: with a step budget max, no run dispatches more than max               *)
(* instructions; when max have been dispatched and an instruction remains    *)
(* at pc, the run halts with MAX_STEPS_EXCEEDED and that instruction has no  *)
(* effect on the stack; with max = 0 a non-empty program executes nothing.   *)
C3_StepBudget ==
    /\ [](max_steps # <<>> => steps <= max_steps[1])
    /\ [][(/\ phase = "running"
           /\ InLoop(pc, bytecode)
           /\ max_steps # <<>>
           /\ steps >= max_steps[1])
          => (/\ phase' = "halted"
              /\ result'.kind = "Error"
              /\ result'.code = "MAX_STEPS_EXCEEDED"
              /\ stack' = stack
              /\ output' = output
              /\ steps' = steps
              /\ pc' = pc)]_vars
    /\ []((max_steps = <<0>> /\ phase # "idle")
          => (/\ steps = 0
              /\ output = <<>>
              /\ stack = PrimeInputs(StackNew(EngineStackSize), inputs)
              /\ (RunOver /\ Len(bytecode.instructions) > 0
                    => result.code = "MAX_STEPS_EXCEEDED")))

\* a run stopped by its budget after dispatching max > 0 instructions, one
\* instruction still waiting at pc
C3_Witness ==
    /\ phase = "halted"
    /\ result.code = "MAX_STEPS_EXCEEDED"
    /\ max_steps # <<>>
    /\ max_steps[1] > 0
    /\ steps = max_steps[1]
    /\ InLoop(pc, bytecode)

(* C4: every run ends in exactly one terminal result: Success(v) when a      *)
(* Return is dispatched, v the value popped from the top of the stack; Unit  *)
(* when pc reaches the end without a Return; Error when an instruction       *)
(* fails; and nothing is dispatched after the terminal result.               *)
C4_TerminalResult ==
    /\ [](phase # "aborted")
    /\ [](phase = "halted" <=> result.kind \in {"Success", "Unit", "Error"})
    /\ [](result.kind = "Unit" => ~InLoop(pc, bytecode))
    /\ [][(CanDispatch /\ CurOp.op = "Return")
          => (/\ phase' = "halted"
              /\ result'.kind = "Success"
              /\ (Len(stack.values) > 0
                    => result'.value = stack.values[Len(stack.values)]))]_vars
    /\ [][(CanDispatch /\ result'.kind = "Success") => CurOp.op = "Return"]_vars
    /\ [][(CanDispatch /\ failure'.kind # "None")
          => (phase' = "halted" /\ result'.kind = "Error")]_vars
    /\ [][phase = "halted" => (steps' = steps /\ result' = result)]_vars

\* the verdict of the ContractVerifier on a contract's constraint text
SampleConstraint == "x > 0"

(* C5: dispatching CheckPre, CheckPost or Assert consults the Contract       *)
(* Verifier; a verdict of Unsat or Unknown halts the run with a              *)
(* ConstraintViolation failure (code CONSTRAINT_VIOLATION) carrying the      *)
(* constraint text; only Sat and Skipped let execution continue.             *)
C5_ContractEnforced ==
    [][(/\ CanDispatch
        /\ CurOp.op \in {"CheckPre", "CheckPost", "Assert"}
        /\ Verify(verifier, SampleConstraint) \in {"Unsat", "Unknown"})
       => (/\ phase' = "halted"
           /\ failure' = ConstraintViolation(SampleConstraint)
           /\ result'.kind = "Error"
           /\ result'.code = "CONSTRAINT_VIOLATION")]_vars

(* C6: in the default engine mode, dispatching an instruction the engine     *)
(* gives no meaning to halts the run with an InvalidOperation failure; it    *)
(* is never skipped as a silent no-op.                                       *)
C6_UnknownOpRejected ==
    [][(CanDispatch /\ CurOp.op \notin HandledOps)
       => (/\ phase' = "halted"
           /\ failure'.kind = "InvalidOperation"
           /\ result'.kind = "Error")]_vars

(* C7: dispatching Jump(target) or Loop(target) with target below the        *)
(* number of instructions sets pc to target, so the instruction at target    *)
(* is dispatched next; a target at or past the end fails with                *)
(* InvalidOperation.                                                         *)
C7_JumpSetsPc ==
    [][(CanDispatch /\ CurOp.op \in {"Jump", "Loop"})
       => IF CurOp.arg < Len(bytecode.instructions)
          THEN phase' = "running" /\ pc' = CurOp.arg
          ELSE /\ phase' = "halted"
               /\ failure'.kind = "InvalidOperation"
               /\ result'.kind = "Error"]_vars

(* C8: when a Const instruction, or the priming of the caller's inputs,      *)
(* would push onto an operand stack already at its capacity of 1024, the     *)
(* run halts with Error STACK_OVERFLOW; it does not go on with the value     *)
(* dropped.                                                                  *)
C8_OverflowReported ==
    /\ [][(/\ CanDispatch
           /\ CurOp.op = "Const"
           /\ get_constant(bytecode, CurOp.arg) # <<>>
           /\ Len(stack.values) = EngineStackSize)
          => (/\ phase' = "halted"
              /\ result'.kind = "Error"
              /\ result'.code = "STACK_OVERFLOW")]_vars
    /\ [][(/\ phase = "idle"
           /\ phase' # "idle"
           /\ Len(stack.values) + Len(inputs') > EngineStackSize)
          => (/\ phase' = "halted"
              /\ result'.kind = "Error"
              /\ result'.code = "STACK_OVERFLOW")]_vars

\* the table of C19, by the failure's variant name
TableCode(k) ==
    CASE k = "DivisionByZero" -> "DIVISION_BY_ZERO"
      [] k = "IndexOutOfBounds" -> "INDEX_OUT_OF_BOUNDS"
      [] k = "StackOverflow" -> "STACK_OVERFLOW"
      [] k = "StackUnderflow" -> "STACK_UNDERFLOW"
      [] k = "MaxStepsExceeded" -> "MAX_STEPS_EXCEEDED"
      [] k = "ConstraintViolation" -> "CONSTRAINT_VIOLATION"
      [] k \in {"Memory", "InvalidOperation", "TypeMismatch", "UndefinedFunction",
                "Panic"} -> "RUNTIME_ERROR"
      [] OTHER -> "no code"

(* C19: the code of an Error result produced by a failing instruction is the  *)
(* fixed table's image of the failure raised: DivisionByZero ->               *)
(* DIVISION_BY_ZERO, IndexOutOfBounds -> INDEX_OUT_OF_BOUNDS, StackOverflow   *)
(* -> STACK_OVERFLOW, StackUnderflow -> STACK_UNDERFLOW, MaxStepsExceeded ->  *)
(* MAX_STEPS_EXCEEDED, ConstraintViolation -> CONSTRAINT_VIOLATION, and every *)
(* other failure (Memory, InvalidOperation, TypeMismatch, UndefinedFunction,  *)
(* Panic) -> RUNTIME_ERROR.  The first conjunct is the table over one failure *)
(* of every kind, the second the Error result of every failing instruction.   *)
C19_ErrorCodeTable ==
    /\ [](\A e \in {DivisionByZero, IndexOutOfBounds(3, 2), StackOverflow, StackUnderflow,
                     MaxStepsExceeded, ConstraintViolation("x > 0"),
                     Memory("invalid address: 3"), InvalidOperation("bad operand"),
                     TypeMismatch("numeric", "non-numeric"), UndefinedFunction("len"),
                     PanicError("boom")} :
            error_code(e) = TableCode(e.kind))
    /\ [][(CanDispatch /\ failure' # NoError)
          => (/\ result'.kind = "Error"
              /\ result'.code = TableCode(failure'.kind))]_vars

\* an Add met a String beside an Integer and the run ended in RUNTIME_ERROR
C19_Witness ==
    /\ phase = "halted"
    /\ failure = TypeMismatch("compatible types", "incompatible types")
    /\ result.kind = "Error"
    /\ result.code = "RUNTIME_ERROR"

(* C24: run_with_inputs starts with pc = 0, step count 0 and the operand      *)
(* stack primed so that the first input is on top: for inputs [v1, ..., vn]   *)
(* with n >= 1 the program [Return] yields Success(v1), and successive pops   *)
(* would yield v1, v2, ..., vn (the stack, bottom to top, is vn, ..., v1).    *)
C24_InputsPrimed ==
    /\ [][(phase = "idle" /\ phase' = "running")
          => (/\ pc' = 0
              /\ steps' = 0
              /\ stack'.values = Reverse(inputs'))]_vars
    /\ [](( /\ phase = "halted"
            /\ bytecode.instructions = <<Instr("Return", 0)>>
            /\ Len(inputs) >= 1
            /\ BudgetCovers(1))
          => result = Success(inputs[1]))

(* C25: dispatching Panic always halts the run with an Error and no later     *)
(* instruction is dispatched: the message carries the popped string when the  *)
(* top of the stack is a String, and the default "panic" when the stack is    *)
(* empty or the top is not a string.                                          *)
C25_PanicHalts ==
    /\ [][(CanDispatch /\ CurOp.op = "Panic")
          => (/\ phase' = "halted"
              /\ result'.kind = "Error"
              /\ IF Len(stack.values) > 0 /\ stack.values[Len(stack.values)].tag = "String"
                 THEN /\ failure' = PanicError(stack.values[Len(stack.values)].s)
                      /\ result'.message = "panic: " \o stack.values[Len(stack.values)].s
                 ELSE /\ failure' = PanicError("panic")
                      /\ result'.message = "panic: panic")]_vars
    /\ [][(failure.kind = "Panic") => (steps' = steps /\ pc' = pc /\ phase' = phase)]_vars

\* a Panic met the String "msg" on top of the primed stack and halted the run
C25_Witness ==
    /\ phase = "halted"
    /\ failure = PanicError("msg")
    /\ bytecode.instructions[pc + 1].op = "Panic"
    /\ inputs = <<StringV("msg"), IntegerV(IntMax)>>
    /\ result.kind = "Error"
    /\ result.message = "panic: msg"

C29_RunIsolated ==
    (calls > 0)
    => LET fresh == RunCall(PrimeInputs(StackNew(EngineStackSize), inputs), bytecode, 0, 0,
                            max_steps, overflow_checks)
       IN result = fresh.result /\ phase = fresh.phase

(* C28: when an arithmetic instruction (Add, Sub, Mul or Div) fails in the    *)
(* engine, with StackUnderflow because only one operand is present, with      *)
(* TypeMismatch, or with DivisionByZero, the operand stack is the same as it  *)
(* was before the instruction was dispatched.                                 *)
C28_FailedArithKeepsOperands ==
    [][(/\ CanDispatch
        /\ CurOp.op \in ArithOps
        /\ failure'.kind \in {"StackUnderflow", "TypeMismatch", "DivisionByZero"})
       => stack' = stack]_vars

----------------------------------------------------------------------------
(* Properties of the Stack, checked under SpecStack *)

(* C9: for a Stack of capacity n, after any sequence of push, pop and clear  *)
(* the length is between 0 and n; push succeeds exactly when length < n and  *)
(* otherwise fails with StackOverflow; pop on an empty stack fails with      *)
(* StackUnderflow.                                                           *)
C9_StackBounded ==
    /\ [](StackLen(stk) >= 0 /\ StackLen(stk) <= stk.max_size)
    /\ [][stk_op'.name = "push"
          => IF StackLen(stk) < stk.max_size
             THEN /\ stk_res'.status = "ok"
                  /\ stk'.values = Append(stk.values, stk_op'.value)
             ELSE stk_res' = Err(StackOverflow)]_stackVars
    /\ [][(stk_op'.name = "pop" /\ StackLen(stk) = 0)
          => stk_res' = Err(StackUnderflow)]_stackVars
    /\ [][(stk_op'.name = "pop" /\ StackLen(stk) > 0)
          => (/\ stk_res' = Ok(stk.values[StackLen(stk)])
              /\ StackLen(stk') = StackLen(stk) - 1)]_stackVars

\* n > 0 pushes have filled the stack and the (n+1)th was refused
C9_Witness ==
    /\ stk.max_size = MaxCap
    /\ StackLen(stk) = stk.max_size
    /\ stk_op.name = "push"
    /\ stk_res = Err(StackOverflow)

(* C10: peek(offset) returns the value offset positions below the top when   *)
(* offset < length, and fails with StackUnderflow, without panicking, when   *)
(* the stack is empty or offset >= length.                                   *)
C10_PeekTotal ==
    stk_op.name = "peek"
    => IF stk_op.offset < StackLen(stk)
       THEN stk_res = Ok(stk.values[StackLen(stk) - stk_op.offset])
       ELSE stk_res = Err(StackUnderflow)

(* C11: a failed Stack operation leaves the stack unchanged: after a push     *)
(* that fails with StackOverflow, or a pop or a peek that fails with          *)
(* StackUnderflow, the stack holds the same values in the same order as       *)
(* before the call.                                                           *)
C11_FailedOpKeepsStack ==
    /\ [][(stk_op'.name = "push" /\ stk_res' = Err(StackOverflow))
          => stk'.values = stk.values]_stackVars
    /\ [][(stk_op'.name \in {"pop", "peek"} /\ stk_res' = Err(StackUnderflow))
          => stk'.values = stk.values]_stackVars

\* a push refused on a full stack that still holds its two values in order
C11_Witness ==
    /\ stk_op.name = "push"
    /\ stk_res = Err(StackOverflow)
    /\ stk.values = <<IntegerV(1), StringV("a")>>
    /\ stk_op.value = IntegerV(1)

----------------------------------------------------------------------------
(* Properties of the Memory arena, checked under SpecMemory *)

\* the slot at addr holds a cell; a slot that exists and holds none is a
\* tombstone, the mark free leaves
Live(m, addr) == addr < Len(m.cells) /\ m.cells[addr + 1] # <<>>

(* C12: for an arena of capacity k the first k allocs succeed and the         *)
(* (k+1)th fails with OutOfMemory{requested: 1, available: 0} and leaves the  *)
(* arena unchanged; after any sequence of alloc, write, free and gc the       *)
(* number of cells never exceeds k.  (The first k allocs are counted on an    *)
(* arena from which no compaction has removed a slot.)                        *)
C12_AllocBounded ==
    /\ [](Len(mem.cells) <= mem.max_size)
    /\ [][(mem_op'.name = "alloc" /\ Len(mem_issued) = Len(mem.cells))
          => IF Len(mem_issued) < mem.max_size
             THEN /\ mem_res' = MemOk(Len(mem_issued), NoCell)
                  /\ mem'.cells = Append(mem.cells, <<mem_op'.cell>>)
             ELSE /\ mem_res' = MemErr(OutOfMemory(1, 0))
                  /\ mem' = mem]_memVars
    /\ [][(mem_op'.name = "alloc" /\ Len(mem.cells) = mem.max_size)
          => (mem_res' = MemErr(OutOfMemory(1, 0)) /\ mem' = mem)]_memVars

\* k > 0 allocs have filled the arena and the (k+1)th was refused
C12_Witness ==
    /\ mem.max_size = MaxMem
    /\ Len(mem_issued) = MaxMem
    /\ Len(mem.cells) = MaxMem
    /\ mem_op.name = "alloc"
    /\ mem_res = MemErr(OutOfMemory(1, 0))

(* C13: read, write and free each fail with InvalidAddress for every address  *)
(* that was never allocated and for every address that has already been       *)
(* freed; in particular a write or a second free on a freed address fails,    *)
(* and a freed address never becomes readable again through write.            *)
C13_InvalidAddress ==
    /\ [][(mem_op'.name \in {"read", "write", "free"} /\ ~Live(mem, mem_op'.addr))
          => mem_res' = MemErr(InvalidAddress(mem_op'.addr))]_memVars
    /\ [][(mem_op'.name = "write" /\ ~Live(mem, mem_op'.addr))
          => ~Live(mem', mem_op'.addr)]_memVars

(* C14: across any sequence of alloc, write, free and gc on one arena, every  *)
(* successful alloc returns an address strictly greater than all addresses    *)
(* returned by earlier allocs, so no address is ever issued twice.            *)
C14_AddressesIncrease ==
    \A i, j \in DOMAIN mem_issued : i < j => mem_issued[i] < mem_issued[j]

(* C15: after allocating A, B and C, freeing B and running gc, A and C are    *)
(* still read at the addresses alloc returned for them and hold the values    *)
(* they were allocated with; in general compaction changes neither the        *)
(* address nor the value of any live cell.                                    *)
C15_GcKeepsLiveCells ==
    [][mem_op'.name = "gc"
       => \A a \in 0..MaxMem :
            Live(mem, a) => MemoryRead(mem', a).res = MemoryRead(mem, a).res]_memVars

(* C16: free(addr) on a live address changes only that cell: it becomes a     *)
(* tombstone (read(addr) then fails with InvalidAddress), the number of slots *)
(* is unchanged, and every other live cell keeps its address and its value.   *)
C16_FreeIsLocal ==
    [][(mem_op'.name = "free" /\ Live(mem, mem_op'.addr))
       => (/\ mem_res' = MemOk(0, NoCell)
           /\ Len(mem'.cells) = Len(mem.cells)
           /\ mem'.max_size = mem.max_size
           /\ mem'.cells[mem_op'.addr + 1] = <<>>
           /\ MemoryRead(mem', mem_op'.addr).res = MemErr(InvalidAddress(mem_op'.addr))
           /\ \A a \in 0..MaxMem :
                a # mem_op'.addr
                => (/\ Live(mem', a) = Live(mem, a)
                    /\ MemoryRead(mem', a).res = MemoryRead(mem, a).res))]_memVars

\* the middle one of three live cells has just been freed
C16_Witness ==
    /\ mem_op = [name |-> "free", addr |-> 1, cell |-> NoCell]
    /\ mem_res = MemOk(0, NoCell)
    /\ mem.cells = <<<<IntegerCell(7)>>, <<>>, <<StringCell("c")>>>>
    /\ mem_issued = <<0, 1, 2>>

----------------------------------------------------------------------------
(* Properties of the StackValue arithmetic, checked under SpecValue *)

(* C17: for all 64-bit integer pairs (a, b), div on (Integer a, Integer 0)    *)
(* fails with DivisionByZero, and for b # 0 div returns Integer(q) where q is *)
(* a divided by b truncated toward zero: a = q * b + r with |r| < |b| and r   *)
(* zero or of a's sign.                                                       *)
C17_IntegerDiv ==
    (val_op = "Div" /\ val_x.tag = "Integer" /\ val_y.tag = "Integer")
    => IF val_y.i = 0
       THEN val_res = Err(DivisionByZero)
       ELSE /\ val_res.status = "ok"
            /\ val_res.val.tag = "Integer"
            /\ LET r == val_x.i - val_res.val.i * val_y.i
               IN /\ Abs(r) < Abs(val_y.i)
                  /\ (r = 0 \/ (r < 0) = (val_x.i < 0))

(* C18: add, sub, mul and div return a value only for (Integer, Integer) and  *)
(* (Float, Float) operands, and add also for (String, String), where it       *)
(* concatenates left then right; for every other pair of tags they return a   *)
(* TypeMismatch failure and never coerce.                                     *)
C18_NoCoercion ==
    val_op # "none"
    => LET same == val_x.tag = val_y.tag
           valued == \/ (same /\ val_x.tag \in {"Integer", "Float"})
                     \/ (same /\ val_x.tag = "String" /\ val_op = "Add")
       IN /\ val_res.status = "ok" => (valued /\ val_res.val.tag = val_x.tag)
          /\ ~valued => (val_res.status = "err" /\ val_res.err.kind = "TypeMismatch")
          /\ (val_op = "Add" /\ same /\ val_x.tag = "String")
             => val_res = Ok(StringV(val_x.s \o val_y.s))

\* an Integer added to a Float was refused, and two different Strings were
\* concatenated left then right: one state per disjunct
C18_Witness ==
    /\ val_op = "Add"
    /\ \/ (/\ val_x = IntegerV(1)
           /\ val_y = FloatV(1, 2)
           /\ val_res = Err(TypeMismatch("compatible types", "incompatible types")))
       \/ (/\ val_x = StringV("ab")
           /\ val_y = StringV("c")
           /\ val_res = Ok(StringV("abc")))

(* C27: Integer add, sub, mul and div are total over all pairs of 64-bit      *)
(* operands: each call returns either an Integer value or an explicit failure *)
(* and never traps or aborts the host, including when the mathematical result *)
(* lies outside the i64 range.                                                *)
C27_IntegerArithTotal ==
    (val_op # "none" /\ val_x.tag = "Integer" /\ val_y.tag = "Integer")
    => \/ val_res.status = "ok" /\ val_res.val.tag = "Integer"
       \/ val_res.status = "err"

----------------------------------------------------------------------------
(* Properties of the host's objects, checked under SpecHost *)

(* C21: violation_dso(contract, context) returns a DSO whose error_code is    *)
(* chosen by the contract kind (Pre -> PRECONDITION_VIOLATION, Post ->        *)
(* POSTCONDITION_VIOLATION, Invariant -> INVARIANT_VIOLATION, Assert ->       *)
(* ASSERTION_FAILED), whose expected field equals the contract's constraint   *)
(* text, whose status is ContractViolation and whose context equals the       *)
(* given context.                                                             *)
C21_ViolationDso ==
    (host_op.name = "violation_dso")
    => LET contract == host_op.arg[1]
           context == host_op.arg[2]
       IN /\ host_res.error_code =
                (CASE contract.kind = "Pre" -> "PRECONDITION_VIOLATION"
                   [] contract.kind = "Post" -> "POSTCONDITION_VIOLATION"
                   [] contract.kind = "Invariant" -> "INVARIANT_VIOLATION"
                   [] contract.kind = "Assert" -> "ASSERTION_FAILED")
          /\ host_res.expected = <<contract.constraint>>
          /\ host_res.status = "ContractViolation"
          /\ host_res.context = context

\* the DSO of a violated Assert contract with an Object as context
C21_Witness ==
    /\ host_op.name = "violation_dso"
    /\ host_op.arg[1].kind = "Assert"
    /\ host_op.arg[1].constraint = "x > 0"
    /\ host_op.arg[2].t = "object"
    /\ host_res.error_code = "ASSERTION_FAILED"
    /\ host_res.expected = <<"x > 0">>

(* C22: the no-op solver (DummySolver) returns Skipped from every assert and  *)
(* check_with_inputs call, whatever the constraint, the inputs and the        *)
(* preceding sequence of push, pop and reset calls; a ContractVerifier built  *)
(* by disabled() therefore returns Skipped (never Sat) from verify_pre and    *)
(* verify_post and reports is_enabled() = false.                              *)
C22_DisabledVerifierSkips ==
    (verifier = VerifierDisabled)
    => /\ verifier.solver = <<"Dummy">>
       /\ host_op.name \in {"verify_pre", "verify_post"} => host_res = "Skipped"
       /\ host_op.name = "is_enabled" => host_res = FALSE

\* verify_post on the disabled verifier, with a constraint and inputs, skipped
C22_Witness ==
    /\ verifier = VerifierDisabled
    /\ host_op.name = "verify_post"
    /\ host_op.arg[1].constraint = "x > 0"
    /\ host_op.arg[2] = Json("string", "1", <<>>)
    /\ host_res = "Skipped"

(* C23: StdLib.call(name, args) with a name that is not registered fails with *)
(* UndefinedFunction(name) carrying exactly the requested name, for any       *)
(* argument list; the registry built by new() contains print, len and abs,    *)
(* and no sequence of call, contains or functions invocations changes its     *)
(* contents.                                                                  *)
C23_UndefinedFunction ==
    /\ stdlib = StdLibNew
    /\ {"print", "len", "abs"} \subseteq DOMAIN stdlib
    /\ (host_op.name = "call" /\ host_op.arg[1] \notin {"print", "len", "abs"})
       => host_res.res = Err(UndefinedFunction(host_op.arg[1]))
    /\ (host_op.name = "contains" /\ host_op.arg[1] \in {"print", "len", "abs"})
       => host_res = TRUE
    /\ host_op.name = "functions" => {"print", "len", "abs"} \subseteq host_res

\* a call of an unregistered name, with arguments, refused under that name
C23_Witness ==
    /\ host_op.name = "call"
    /\ host_op.arg[1] = "missing"
    /\ host_op.arg[2] # <<>>
    /\ host_res.res = Err(UndefinedFunction("missing"))
    /\ stdlib = StdLibNew

(* C26: in a Bytecode container, add_constant(c) returns the index at which   *)
(* c is stored, and after any further sequence of add_constant and push calls *)
(* get_constant of that index still returns c; get_constant(idx) returns a    *)
(* miss (None), not a crash, for every idx >= the number of constants.        *)
C26_ConstantIndexStable ==
    /\ \A k \in 1..Len(const_at) :
          /\ const_at[k].idx < Len(bytecode.constants)
          /\ bytecode.constants[const_at[k].idx + 1] = const_at[k].c
          /\ get_constant(bytecode, const_at[k].idx) = <<const_at[k].c>>
    /\ (host_op.name = "get_constant" /\ host_op.arg[1] >= Len(bytecode.constants))
       => host_res = <<>>
    /\ (host_op.name = "get_constant" /\ host_op.arg[1] < Len(bytecode.constants))
       => host_res = <<bytecode.constants[host_op.arg[1] + 1]>>

\* two different constants added, an instruction pushed, and a get_constant
\* just past the end that missed
C26_Witness ==
    /\ Len(const_at) = 2
    /\ const_at[1].c # const_at[2].c
    /\ get_constant(bytecode, const_at[1].idx) = <<const_at[1].c>>
    /\ Len(bytecode.instructions) > 0
    /\ host_op.name = "get_constant"
    /\ host_op.arg[1] = Len(bytecode.constants)
    /\ host_res = <<>>

----------------------------------------------------------------------------
(* Properties of the DebugStateObject, checked under SpecDso *)

(* C20: a DSO round-trips through its JSON text: for every DSO (any           *)
(* combination of present or absent location, expected, actual and            *)
(* suggestion, any context value, and an extension map that is empty or       *)
(* populated with arbitrary string keys), from_json(to_json(dso)) succeeds    *)
(* and yields a DSO equal to the original in every field.                     *)
C20_JsonRoundTrip ==
    dso_back # <<>> => dso_back[1] = ParseOk(dso)

====
